---- MODULE Spec2Model ----
(***************************************************************************)
(* A model of svcxtend.h: the allocator abstraction, the arena allocator,  *)
(* the type-erased vector and the string builder built on it.              *)
(*                                                                         *)
(* size_t is modelled as an unsigned word of WordBits bits (the library is *)
(* compiled for 64; the arithmetic is the same modulo 2^WordBits).  Every  *)
(* size_t expression of the source is reduced with W(...) where the C      *)
(* expression can wrap.                                                    *)
(***************************************************************************)
EXTENDS Integers, Sequences, FiniteSets, TLC

\* ------------------------------------------------------------- bounds

\* Width of size_t in the model.
WordBits == 7

\* Capacity (bytes) of the largest arena the arena specification creates.
MaxArena == 24

\* Longest log of successful arena allocations kept between resets.
MaxLog == 3

\* Largest logical length the vector is driven to (pushes, inserts and appends
\* are offered while they keep size within it).
MaxLen == 3

\* Blocks the heap can hold at once: malloc fails when all are taken.
MaxBlocks == 2

\* Longest array given to from_array and longest run of elements or bytes
\* given to one append.
MaxArr == 1

\* Largest capacity of the vectors the growth specification starts from.
MaxCount == 12

\* Longest vector the element-order specification is driven to.
MaxSeq == 3

\* Longest array handed to from_array / append in that specification.
MaxSrc == 2

\* Longest string view handed to the string-view functions.
MaxView == 3

\* Largest number of views the out vector of svcx_sv_split is driven to.
MaxOut == 5

\* Longest text appended to the builder, and longest string per append, in
\* the round-trip specification.
MaxText == 9
MaxStr == 2

\* Ranges the arena behind an arena-backed vector can hand out.
MaxBump == 3

SizeMod == 2 ^ WordBits

SIZE_MAX == SizeMod - 1

\* x reduced to size_t.
W(x) == x % SizeMod

\* ------------------------------------------------------------- state

VARIABLES
    arena,   \* svcx_arena: [base, size, used]
    alog,    \* successful arena allocations since the last init/reset
    aret,    \* what the last arena call did and returned
    v,       \* svcx_vector: [data, size, cap, stride]
    buf,     \* the block v.data points to: [bytes, cells]
    live,    \* heap blocks allocated and not yet released
    last,    \* what the last vector/builder call did and returned
    run      \* "ok", or how execution left defined behaviour

avars == <<arena, alog, aret>>

vvars == <<v, buf, live, last, run>>

vars == <<arena, alog, aret, v, buf, live, last, run>>

\* ------------------------------------------------------------- arena

\* arena.base is a heap pointer: NULL, a live block, or a released block.
BaseStates == {"null", "live", "freed"}

\* size = (size + 7) & ~7, in size_t arithmetic.
AlignUp8(size) == W(size + 7) - (W(size + 7) % 8)

\* svcx_arena_init: base = malloc(size) (unchecked), size, used = 0.
svcx_arena_init(size, mallocOk) ==
    [base |-> IF mallocOk THEN "live" ELSE "null", size |-> size, used |-> 0]

\* svcx_arena_alloc with the bounds check left out.
svcx_arena_alloc_nocheck(ar, size) ==
    LET sz == AlignUp8(size)
    IN  [ok |-> TRUE, off |-> ar.used, len |-> sz,
         arena |-> [ar EXCEPT !.used = W(ar.used + sz)]]

\* svcx_arena_alloc: the arena after the call and the result: ok = FALSE is
\* the NULL return, otherwise the pointer returned is base + off and len is
\* the rounded size the bump pointer advanced by.
svcx_arena_alloc(ar, size) ==
    LET sz == AlignUp8(size)
    IN  IF W(ar.used + sz) > ar.size
        THEN [ok |-> FALSE, off |-> 0, len |-> 0, arena |-> ar]
        ELSE [ok |-> TRUE, off |-> ar.used, len |-> sz,
              arena |-> [ar EXCEPT !.used = W(ar.used + sz)]]

\* svcx_arena_reset
svcx_arena_reset(ar) == [ar EXCEPT !.used = 0]

\* svcx_arena_free_all: free(base); size = 0; used = 0.  base itself is not
\* cleared: it keeps pointing at the released block.
svcx_arena_free_all(ar) ==
    [base |-> IF ar.base = "null" THEN "null" ELSE "freed", size |-> 0, used |-> 0]

\* Sizes handed to svcx_arena_init.
ArenaSizes == {0, MaxArena \div 2, MaxArena}

\* Sizes requested from svcx_arena_alloc: small ones, and the ones whose
\* rounding or whose sum with `used` leaves the word.
ArenaReqs == {0, 1, 8, 9, 16, SizeMod - 16, SizeMod - 8, SizeMod - 7, SIZE_MAX}

NoCall == [op |-> "none", req |-> 0, ok |-> FALSE, off |-> 0, len |-> 0]

ArenaInitState ==
    /\ \E size \in ArenaSizes : arena = svcx_arena_init(size, TRUE)
    /\ alog = <<>>
    /\ aret = NoCall
    /\ v = [data |-> 0, size |-> 0, cap |-> 0, stride |-> 1]
    /\ buf = [bytes |-> 0, cells |-> <<>>]
    /\ live = {}
    /\ last = <<>>
    /\ run = "ok"

ArenaInit ==
    /\ run = "ok" /\ arena.base # "live"
    /\ \E size \in ArenaSizes, mallocOk \in BOOLEAN :
           arena' = svcx_arena_init(size, mallocOk)
    /\ alog' = <<>>
    /\ aret' = [NoCall EXCEPT !.op = "init"]
    /\ UNCHANGED vvars

ArenaAlloc ==
    /\ run = "ok" /\ Len(alog) < MaxLog
    /\ \E size \in ArenaReqs :
         LET r == svcx_arena_alloc(arena, size)
         IN  /\ arena' = r.arena
             /\ aret' = [op |-> "alloc", req |-> size, ok |-> r.ok,
                         off |-> r.off, len |-> r.len]
             /\ alog' = IF r.ok THEN Append(alog, [off |-> r.off, len |-> r.len])
                                ELSE alog
    /\ UNCHANGED vvars

\* svcx_arena_free: a no-op.
ArenaFree ==
    /\ run = "ok"
    /\ aret' = [NoCall EXCEPT !.op = "free"]
    /\ UNCHANGED <<arena, alog>>
    /\ UNCHANGED vvars

ArenaReset ==
    /\ run = "ok"
    /\ arena' = svcx_arena_reset(arena)
    /\ alog' = <<>>
    /\ aret' = [NoCall EXCEPT !.op = "reset"]
    /\ UNCHANGED vvars

\* svcx_arena_free_all passes base to free whatever it refers to: free(NULL)
\* does nothing, free of a block released before is undefined behaviour.
ArenaFreeAll ==
    /\ run = "ok"
    /\ arena' = svcx_arena_free_all(arena)
    /\ alog' = <<>>
    /\ aret' = [NoCall EXCEPT !.op = "free_all"]
    /\ run' = IF arena.base = "freed" THEN "ub" ELSE run
    /\ UNCHANGED <<v, buf, live, last>>

ArenaNext ==
    \/ ArenaInit
    \/ ArenaAlloc
    \/ ArenaFree
    \/ ArenaReset
    \/ ArenaFreeAll

SpecArena == ArenaInitState /\ [][ArenaNext]_vars

\* ------------------------------------------------------------- heap

NULL == 0

Ptrs == 1..MaxBlocks

\* malloc: the block handed out when the call succeeds (NULL when the heap
\* is exhausted); a call may also fail with blocks left.
FreshPtr(lv) == IF Ptrs \ lv = {} THEN NULL
                ELSE CHOOSE p \in Ptrs \ lv : \A q \in Ptrs \ lv : p <= q

\* ------------------------------------------------------------- vector

\* Element values.  The library copies elements and never looks at their
\* bytes, except that svcx_sb_cstr tests one byte against NUL: two values,
\* NUL (0) and one other, stand for all of them.
Elems == {0, 1}

\* A cell of a block that was never written.
U == -1

\* sizeof(char) and sizeof(int): the strides the builder and the tests use.
Strides == {1, 4}

\* svcx_result
SVCX_OK == "SVCX_OK"
SVCX_VEC_GROW_MEM_ERR == "SVCX_VEC_GROW_MEM_ERR"
SVCX_VEC_ERR_OOM == "SVCX_VEC_ERR_OOM"
SVCX_VEC_PUSH_GROW_ERR == "SVCX_VEC_PUSH_GROW_ERR"
SVCX_VEC_POP_EMPTY_ERR == "SVCX_VEC_POP_EMPTY_ERR"
SVCX_VEC_INSERT_OOB == "SVCX_VEC_INSERT_OOB"
SVCX_VEC_INSERT_GROW_ERR == "SVCX_VEC_INSERT_GROW_ERR"
SVCX_VEC_APPEND_STRIDE_ERR == "SVCX_VEC_APPEND_STRIDE_ERR"
SVCX_VEC_APPEND_GROW_ERR == "SVCX_VEC_APPEND_GROW_ERR"
SVCX_VEC_FROM_ARR_MALLOC_ERR == "SVCX_VEC_FROM_ARR_MALLOC_ERR"
SVCX_SV_SPLIT_ERR == "SVCX_SV_SPLIT_ERR"
SVCX_SB_PUSHC_ERR == "SVCX_SB_PUSHC_ERR"
SVCX_SB_APPEND_ERR == "SVCX_SB_APPEND_ERR"
SVCX_SB_APPEND_SV_ERR == "SVCX_SB_APPEND_SV_ERR"
SVCX_SB_FMT_INVALID_ARG_ERR == "SVCX_SB_FMT_INVALID_ARG_ERR"
SVCX_SB_FMT_RESERVE_ERR == "SVCX_SB_FMT_RESERVE_ERR"

\* The "result" of svcx_sb_cstr and svcx_sb_build, which return a pointer and
\* no svcx_result.
POINTER == "pointer"

Min(a, b) == IF a < b THEN a ELSE b

\* The first n cells of a block.
Take(cells, n) == SubSeq(cells, 1, Min(n, Len(cells)))

\* Cell i (from 0) of a block; a cell never written reads as U.
CellAt(cells, i) == IF i < Len(cells) THEN cells[i + 1] ELSE U

\* cells with the sequence xs stored from cell i on (cells between the old end
\* and i stay unwritten).
Store(cells, i, xs) ==
    [k \in 1..(IF Len(cells) > i + Len(xs) THEN Len(cells) ELSE i + Len(xs)) |->
        IF k > i /\ k <= i + Len(xs) THEN xs[k - i]
        ELSE IF k <= Len(cells) THEN cells[k] ELSE U]

\* Whether elements [0, n) of the block at s.v.data lie inside the block.
InBlock(s, n) == n = 0 \/ (s.v.data # NULL /\ n * s.v.stride <= s.buf.bytes)

\* A write that leaves the block: what fits in the block is kept, the rest
\* lands in memory the vector does not own.
Clip(s) ==
    [s EXCEPT !.buf.cells = Take(s.buf.cells, s.buf.bytes \div s.v.stride)]

\* What a call returns to the action that made it: the vector and its block
\* afterwards, the svcx_result, the svcx_alloc requests made (nalloc, and
\* oom: one of them returned NULL), the pointers passed to svcx_free, and
\* st: "ok", "ub" (a write outside the block) or "hang" (a loop that never
\* exits).  used: the block p was installed as v.data.  nrealloc: the
\* svcx_realloc requests made; no function of the library makes one.
Ret(s, res, nalloc, oom, used, freed, st) ==
    [v |-> s.v, buf |-> s.buf, res |-> res, nalloc |-> nalloc, oom |-> oom,
     used |-> used, freed |-> freed, st |-> st, out |-> U, nrealloc |-> 0]

\* A call that returns res having touched nothing.
Plain(s, res) == Ret(s, res, 0, FALSE, FALSE, {}, "ok")

\* The vector and block a call left.
After(r) == [v |-> r.v, buf |-> r.buf]

\* r, with the vector and block replaced by those of t; a write outside the
\* block (fits = FALSE) ends defined behaviour.
Written(r, t, fits) ==
    IF fits THEN [r EXCEPT !.v = t.v, !.buf = t.buf]
    ELSE [r EXCEPT !.v = Clip(t).v, !.buf = Clip(t).buf, !.st = "ub"]

\* svcx_vector_init
svcx_vector_init(stride) ==
    [v |-> [data |-> NULL, size |-> 0, cap |-> 0, stride |-> stride],
     buf |-> [bytes |-> 0, cells |-> <<>>]]

\* svcx_vector_clear
svcx_vector_clear(s) == [s EXCEPT !.v.size = 0]

\* The block installed by a growth that copies nothing from the old block.
Regrown_nocopy(s, new_cap, p) ==
    [v |-> [s.v EXCEPT !.data = p, !.cap = new_cap],
     buf |-> [bytes |-> W(new_cap * s.v.stride), cells |-> <<>>]]

\* The block installed by a growth: new_cap slots of which the first
\* `size` are copied from the old block (memcpy of size * stride bytes).
Regrown(s, new_cap, p) ==
    [v |-> [s.v EXCEPT !.data = p, !.cap = new_cap],
     buf |-> [bytes |-> W(new_cap * s.v.stride),
              cells |-> Take(s.buf.cells, s.v.size)]]

\* The memcpy of a growth stays inside the new block.
CopyFits(s, new_cap) ==
    s.v.data = NULL \/ s.v.size = 0
        \/ W(s.v.size * s.v.stride) <= W(new_cap * s.v.stride)

\* new_cap of _svcx_vector_grow
GrowCap(cap, min_cap) ==
    LET new_cap == IF cap # 0 THEN W(cap * 2) ELSE 8
    IN  IF new_cap < min_cap THEN min_cap ELSE new_cap

\* _svcx_vector_grow installing the new capacity before it looks at what
\* svcx_alloc returned.
svcx_vector_grow_early(s, min_cap, p) ==
    LET new_cap == GrowCap(s.v.cap, min_cap)
    IN  IF p = NULL
        THEN Ret([s EXCEPT !.v.cap = new_cap], SVCX_VEC_GROW_MEM_ERR, 1, TRUE,
                 FALSE, {}, "ok")
        ELSE Ret(Regrown(s, new_cap, p), SVCX_OK, 1, FALSE, TRUE, {}, "ok")

\* _svcx_vector_grow resizing the block with svcx_realloc (the call the
\* source keeps as a comment) rather than with svcx_alloc and memcpy.
svcx_vector_grow_realloc(s, min_cap, p) ==
    LET new_cap == GrowCap(s.v.cap, min_cap)
    IN  IF p = NULL
        THEN [Ret(s, SVCX_VEC_GROW_MEM_ERR, 0, TRUE, FALSE, {}, "ok")
                 EXCEPT !.nrealloc = 1]
        ELSE [Ret(Regrown(s, new_cap, p), SVCX_OK, 0, FALSE, TRUE, {}, "ok")
                 EXCEPT !.nrealloc = 1]

\* _svcx_vector_grow; p is what svcx_alloc returns.  The superseded block is
\* not passed to svcx_free.
svcx_vector_grow(s, min_cap, p) ==
    LET new_cap == GrowCap(s.v.cap, min_cap)
    IN  IF p = NULL
        THEN Ret(s, SVCX_VEC_GROW_MEM_ERR, 1, TRUE, FALSE, {}, "ok")
        ELSE IF CopyFits(s, new_cap)
        THEN Ret(Regrown(s, new_cap, p), SVCX_OK, 1, FALSE, TRUE, {}, "ok")
        ELSE Ret(Clip(Regrown(s, new_cap, p)), SVCX_OK, 1, FALSE, TRUE, {}, "ub")

\* The doubling loop of svcx_vector_reserve from new_cap: the capacity it
\* exits with, or -1 when it never exits (new_cap has wrapped to 0).
RECURSIVE ReserveLoop(_, _)
ReserveLoop(new_cap, min_cap) ==
    IF new_cap >= min_cap THEN new_cap
    ELSE IF new_cap = 0 THEN -1
    ELSE ReserveLoop(W(new_cap * 2), min_cap)

\* new_cap of svcx_vector_reserve, were the loop to start from max(cap, 8).
ReserveCap_max8(cap, min_cap) == ReserveLoop(IF cap > 8 THEN cap ELSE 8, min_cap)

\* new_cap of svcx_vector_reserve
ReserveCap(cap, min_cap) == ReserveLoop(IF cap # 0 THEN cap ELSE 8, min_cap)

\* svcx_vector_reserve
svcx_vector_reserve(s, min_cap, p) ==
    LET new_cap == ReserveCap(s.v.cap, min_cap)
        old == IF s.v.data # NULL THEN {s.v.data} ELSE {}
    IN  IF min_cap <= s.v.cap
        THEN Ret(s, SVCX_OK, 0, FALSE, FALSE, {}, "ok")
        ELSE IF new_cap = -1
        THEN Ret(s, SVCX_OK, 0, FALSE, FALSE, {}, "hang")
        ELSE IF p = NULL
        THEN Ret(s, SVCX_VEC_ERR_OOM, 1, TRUE, FALSE, {}, "ok")
        ELSE IF CopyFits(s, new_cap)
        THEN Ret(Regrown(s, new_cap, p), SVCX_OK, 1, FALSE, TRUE, old, "ok")
        ELSE Ret(Clip(Regrown(s, new_cap, p)), SVCX_OK, 1, FALSE, TRUE, old, "ub")

\* The growth push and insert make when the vector is full.
GrowIfFull(s, p) ==
    IF s.v.size = s.v.cap THEN svcx_vector_grow(s, W(s.v.size + 1), p)
    ELSE Plain(s, SVCX_OK)

\* svcx_vector_push
svcx_vector_push(s, elem, p) ==
    LET g == GrowIfFull(s, p)
        t == After(g)
        w == [t EXCEPT !.buf.cells = Store(@, t.v.size, <<elem>>),
                       !.v.size = W(@ + 1)]
    IN  IF g.res # SVCX_OK THEN [g EXCEPT !.res = SVCX_VEC_PUSH_GROW_ERR]
        ELSE IF g.st # "ok" THEN g
        ELSE Written(g, w, InBlock(t, t.v.size + 1))

\* svcx_vector_pop reading the slot before size is decremented: one past the
\* last element.
svcx_vector_pop_stale(s) ==
    IF s.v.size = 0 THEN Plain(s, SVCX_VEC_POP_EMPTY_ERR)
    ELSE [Plain([s EXCEPT !.v.size = @ - 1], SVCX_OK) EXCEPT
             !.out = CellAt(s.buf.cells, s.v.size)]

\* svcx_vector_pop; out is what is copied to out_elem.
svcx_vector_pop(s) ==
    IF s.v.size = 0 THEN Plain(s, SVCX_VEC_POP_EMPTY_ERR)
    ELSE IF ~InBlock(s, s.v.size)
    THEN [Plain([s EXCEPT !.v.size = @ - 1], SVCX_OK) EXCEPT !.st = "ub"]
    ELSE [Plain([s EXCEPT !.v.size = @ - 1], SVCX_OK) EXCEPT
             !.out = CellAt(s.buf.cells, s.v.size - 1)]

\* svcx_vector_at with the index checked against the capacity.
svcx_vector_at_cap(s, index) ==
    IF index >= s.v.cap THEN <<>> ELSE <<CellAt(s.buf.cells, index)>>

\* svcx_vector_at: the returned pointer as the elements it refers to, the
\* one at index, or none for the NULL returned when index >= size.
svcx_vector_at(s, index) ==
    IF index >= s.v.size THEN <<>> ELSE <<CellAt(s.buf.cells, index)>>

\* svcx_vector_insert without the memmove: the element at index is
\* overwritten.
svcx_vector_insert_nomove(s, index, elem, p) ==
    LET g == GrowIfFull(s, p)
        t == After(g)
        w == [t EXCEPT !.buf.cells = Store(@, index, <<elem>>),
                       !.v.size = W(@ + 1)]
    IN  IF index > s.v.size THEN Plain(s, SVCX_VEC_INSERT_OOB)
        ELSE IF g.res # SVCX_OK THEN [g EXCEPT !.res = SVCX_VEC_INSERT_GROW_ERR]
        ELSE Written(g, w, InBlock(t, t.v.size + 1))

\* svcx_vector_insert
svcx_vector_insert(s, index, elem, p) ==
    LET g == GrowIfFull(s, p)
        t == After(g)
        moved == [k \in 1..(t.v.size - index) |-> CellAt(t.buf.cells, index + k - 1)]
        w == [t EXCEPT !.buf.cells = Store(Store(@, index + 1, moved), index, <<elem>>),
                       !.v.size = W(@ + 1)]
    IN  IF index > s.v.size THEN Plain(s, SVCX_VEC_INSERT_OOB)
        ELSE IF g.res # SVCX_OK THEN [g EXCEPT !.res = SVCX_VEC_INSERT_GROW_ERR]
        ELSE IF g.st # "ok" THEN g
        ELSE Written(g, w, InBlock(t, t.v.size + 1))

\* svcx_vector_append copying to dst->data rather than to its tail.
svcx_vector_append_front(s, src, p) ==
    LET new_size == W(s.v.size + Len(src.cells))
        g == IF new_size > s.v.cap THEN svcx_vector_grow(s, new_size, p)
             ELSE Plain(s, SVCX_OK)
        t == After(g)
        w == [t EXCEPT !.buf.cells = Store(@, 0, src.cells),
                       !.v.size = new_size]
    IN  IF s.v.stride # src.stride THEN Plain(s, SVCX_VEC_APPEND_STRIDE_ERR)
        ELSE IF g.res # SVCX_OK THEN [g EXCEPT !.res = SVCX_VEC_APPEND_GROW_ERR]
        ELSE Written(g, w, TRUE)

\* svcx_vector_append; src is [stride, cells]: the source vector's stride and
\* its live elements.
svcx_vector_append(s, src, p) ==
    LET new_size == W(s.v.size + Len(src.cells))
        g == IF new_size > s.v.cap THEN svcx_vector_grow(s, new_size, p)
             ELSE Plain(s, SVCX_OK)
        t == After(g)
        w == [t EXCEPT !.buf.cells = Store(@, t.v.size, src.cells),
                       !.v.size = new_size]
    IN  IF s.v.stride # src.stride THEN Plain(s, SVCX_VEC_APPEND_STRIDE_ERR)
        ELSE IF g.res # SVCX_OK THEN [g EXCEPT !.res = SVCX_VEC_APPEND_GROW_ERR]
        ELSE IF g.st # "ok" THEN g
        ELSE Written(g, w, Len(src.cells) = 0 \/ InBlock(t, t.v.size + Len(src.cells)))

\* svcx_vector_from_array allocating one slot less than count.
svcx_vector_from_array_short(array, stride, p) ==
    LET s == svcx_vector_init(stride)
        count == Len(array)
        t == [v |-> [s.v EXCEPT !.data = p, !.size = count, !.cap = count],
              buf |-> [bytes |-> W((count - 1) * stride), cells |-> array]]
    IN  IF count = 0 THEN Plain(s, SVCX_OK)
        ELSE IF p = NULL
        THEN Ret(s, SVCX_VEC_FROM_ARR_MALLOC_ERR, 1, TRUE, FALSE, {}, "ok")
        ELSE Ret(Clip(t), SVCX_OK, 1, FALSE, TRUE, {}, "ok")

\* svcx_vector_from_array; count is Len(array).
svcx_vector_from_array(array, stride, p) ==
    LET s == svcx_vector_init(stride)
        count == Len(array)
        t == [v |-> [s.v EXCEPT !.data = p, !.size = count, !.cap = count],
              buf |-> [bytes |-> W(count * stride), cells |-> array]]
    IN  IF count = 0 THEN Plain(s, SVCX_OK)
        ELSE IF p = NULL
        THEN Ret(s, SVCX_VEC_FROM_ARR_MALLOC_ERR, 1, TRUE, FALSE, {}, "ok")
        ELSE Ret(Clip(t), SVCX_OK, 1, FALSE, TRUE, {}, "ok")

\* svcx_vector_free without the reset of the fields.
svcx_vector_free_keep(s) ==
    Ret(s, SVCX_OK, 0, FALSE, FALSE,
        IF s.v.data # NULL THEN {s.v.data} ELSE {}, "ok")

\* svcx_vector_free
svcx_vector_free(s) ==
    Ret(svcx_vector_init(s.v.stride), SVCX_OK, 0, FALSE, FALSE,
        IF s.v.data # NULL THEN {s.v.data} ELSE {}, "ok")

\* svcx_vector_size
svcx_vector_size(s) == s.v.size

\* ------------------------------------------------------------- string builder

\* svcx_sb_init: svcx_vector_init with sizeof(char).
svcx_sb_init == svcx_vector_init(1)

\* svcx_sb_clear
svcx_sb_clear(s) == svcx_vector_clear(s)

\* svcx_sb_free
svcx_sb_free(s) == svcx_vector_free(s)

\* svcx_sb_push_char
svcx_sb_push_char(s, c, p) ==
    LET r == svcx_vector_push(s, c, p)
    IN  IF r.res # SVCX_OK THEN [r EXCEPT !.res = SVCX_SB_PUSHC_ERR] ELSE r

\* The shared body with size += len made before the reservation, so that a
\* failed call leaves the length changed.
ReserveAndCopy_early(s, str, p, err) ==
    LET r == svcx_vector_reserve(s, W(s.v.size + Len(str)), p)
        t == After(r)
        w == [t EXCEPT !.buf.cells = Store(@, s.v.size, str),
                       !.v.size = W(@ + Len(str))]
    IN  IF Len(str) = 0 THEN Plain(s, SVCX_OK)
        ELSE IF r.st # "ok" THEN r
        ELSE IF r.res # SVCX_OK
        THEN [r EXCEPT !.res = err, !.v.size = W(@ + Len(str))]
        ELSE Written(r, w, InBlock(t, s.v.size + Len(str)))

\* The body svcx_sb_append and svcx_sb_append_sv share: reserve size + len,
\* memcpy len bytes to the tail, size += len; err is the caller's error.
ReserveAndCopy(s, str, p, err) ==
    LET r == svcx_vector_reserve(s, W(s.v.size + Len(str)), p)
        t == After(r)
        w == [t EXCEPT !.buf.cells = Store(@, s.v.size, str),
                       !.v.size = W(@ + Len(str))]
    IN  IF Len(str) = 0 THEN Plain(s, SVCX_OK)
        ELSE IF r.st # "ok" THEN r
        ELSE IF r.res # SVCX_OK THEN [r EXCEPT !.res = err]
        ELSE Written(r, w, InBlock(t, s.v.size + Len(str)))

\* svcx_sb_append; len is Len(str).
svcx_sb_append(s, str, p) == ReserveAndCopy(s, str, p, SVCX_SB_APPEND_ERR)

\* strlen: the bytes before the first NUL of a buffer that ends with one.
RECURSIVE strlen(_)
strlen(cstr) == IF cstr = <<>> \/ Head(cstr) = 0 THEN 0 ELSE 1 + strlen(Tail(cstr))

\* svcx_sb_append_cstr
svcx_sb_append_cstr(s, cstr, p) == svcx_sb_append(s, SubSeq(cstr, 1, strlen(cstr)), p)

\* svcx_sb_append_sv; sv is the view's bytes.
svcx_sb_append_sv(s, sv, p) == ReserveAndCopy(s, sv, p, SVCX_SB_APPEND_SV_ERR)

\* svcx_sb_append_fmt; needed is what the first vsnprintf returns (negative
\* for an invalid format) and text the needed bytes the second one writes,
\* followed by its terminating NUL.
svcx_sb_append_fmt(s, needed, text, p) ==
    LET r == svcx_vector_reserve(s, W(s.v.size + needed), p)
        t == After(r)
        w == [t EXCEPT !.buf.cells = Store(@, s.v.size, text \o <<0>>),
                       !.v.size = W(@ + needed)]
    IN  IF needed < 0 THEN Plain(s, SVCX_SB_FMT_INVALID_ARG_ERR)
        ELSE IF r.st # "ok" THEN r
        ELSE IF r.res # SVCX_OK THEN [r EXCEPT !.res = SVCX_SB_FMT_RESERVE_ERR]
        ELSE Written(r, w, InBlock(t, s.v.size + needed + 1))

\* svcx_sb_cstr; u is the value an unwritten byte at data[size] reads as.
\* The result of the push is not looked at; the pointer returned is v.data.
svcx_sb_cstr(s, u, p) ==
    LET byte == IF CellAt(s.buf.cells, s.v.size) = U THEN u
                ELSE CellAt(s.buf.cells, s.v.size)
        r == svcx_vector_push(s, 0, p)
    IN  IF s.v.size # s.v.cap /\ ~InBlock(s, s.v.size + 1)
        THEN [Plain(s, POINTER) EXCEPT !.st = "ub"]
        ELSE IF s.v.size = s.v.cap \/ byte # 0
        THEN [r EXCEPT !.v.size = W(@ - 1 + SizeMod), !.res = POINTER]
        ELSE Plain(s, POINTER)

\* svcx_sb_build; the result of the push is not looked at; the pointer
\* returned is v.data.
svcx_sb_build(s, p) ==
    LET r == svcx_vector_push(s, 0, p)
    IN  [r EXCEPT !.res = POINTER]

\* svcx_sb_view: the bytes the returned view covers.
svcx_sb_view(s) == [k \in 1..s.v.size |-> CellAt(s.buf.cells, k - 1)]

\* ------------------------------------------------------------- vector and builder calls

RECURSIVE SeqsUpTo(_, _)
\* The sequences over S of length at most n.
SeqsUpTo(S, n) ==
    IF n = 0 THEN {<<>>}
    ELSE LET shorter == SeqsUpTo(S, n - 1)
         IN  shorter \cup {Append(x, e) : x \in shorter, e \in S}

\* Arrays, byte strings and views handed to from_array and the appends.
Arrays == SeqsUpTo(Elems, MaxArr)

\* Source vectors handed to svcx_vector_append.
Sources == [stride : Strides, cells : Arrays]

\* Texts a format expands to: bytes other than NUL.
Texts == SeqsUpTo(Elems \ {0}, MaxArr)

\* min_cap values handed to svcx_vector_reserve: small ones, one whose
\* capacity times sizeof(int) leaves the word, and one past half the word.
ReserveArgs == {0, 2, 9, SizeMod \div 4, SizeMod \div 2 + 1}

\* What svcx_alloc returns: a fresh block, or NULL.
AllocResults == {FreshPtr(live), NULL}

NoOp == [op |-> "none", arg |-> <<>>, res |-> SVCX_OK, nalloc |-> 0,
         oom |-> FALSE, out |-> U]

S == [v |-> v, buf |-> buf]

\* The call op(arg) returned r, svcx_alloc having returned p.  arg is kept
\* for reserve (its min_cap) and is <<>> for the other calls.
Do(op, arg, r, p) ==
    /\ v' = r.v
    /\ buf' = r.buf
    /\ live' = (live \cup (IF r.used THEN {p} ELSE {})) \ r.freed
    /\ last' = [op |-> op, arg |-> arg, res |-> r.res, nalloc |-> r.nalloc,
                oom |-> r.oom, out |-> r.out]
    /\ run' = r.st
    /\ UNCHANGED avars

Init ==
    /\ \E stride \in Strides :
          /\ v = svcx_vector_init(stride).v
          /\ buf = svcx_vector_init(stride).buf
    /\ live = {}
    /\ last = NoOp
    /\ run = "ok"
    /\ arena = svcx_arena_init(0, FALSE)
    /\ alog = <<>>
    /\ aret = NoCall

\* init and from_array start a vector's life: they are called on a vector
\* that holds no block (a new one, or one that was freed).
VecInit ==
    /\ run = "ok" /\ v.data = NULL
    /\ \E stride \in Strides :
          Do("init", <<>>, Plain(svcx_vector_init(stride), SVCX_OK), NULL)

VecFromArray ==
    /\ run = "ok" /\ v.data = NULL
    /\ \E array \in Arrays, stride \in Strides, p \in AllocResults :
          Do("from_array", <<>>,
             svcx_vector_from_array(array, stride, p), p)

VecClear ==
    /\ run = "ok"
    /\ Do("clear", <<>>, Plain(svcx_vector_clear(S), SVCX_OK), NULL)

VecReserve ==
    /\ run = "ok"
    /\ \E min_cap \in ReserveArgs, p \in AllocResults :
          Do("reserve", <<min_cap>>, svcx_vector_reserve(S, min_cap, p), p)

VecPush ==
    /\ run = "ok" /\ v.size < MaxLen
    /\ \E elem \in Elems, p \in AllocResults :
          Do("push", <<>>, svcx_vector_push(S, elem, p), p)

VecPop ==
    /\ run = "ok"
    /\ Do("pop", <<>>, svcx_vector_pop(S), NULL)

VecInsert ==
    /\ run = "ok" /\ v.size < MaxLen
    /\ \E index \in 0..(v.size + 1), elem \in Elems, p \in AllocResults :
          Do("insert", <<>>, svcx_vector_insert(S, index, elem, p), p)

VecAppend ==
    /\ run = "ok"
    /\ \E src \in Sources, p \in AllocResults :
          /\ v.size + Len(src.cells) <= MaxLen
          /\ Do("append", <<>>,
                svcx_vector_append(S, src, p), p)

VecFree ==
    /\ run = "ok"
    /\ Do("free", <<>>, svcx_vector_free(S), NULL)

SbPushChar ==
    /\ run = "ok" /\ v.stride = 1 /\ v.size < MaxLen
    /\ \E c \in Elems, p \in AllocResults :
          Do("sb_push_char", <<>>, svcx_sb_push_char(S, c, p), p)

SbAppend ==
    /\ run = "ok" /\ v.stride = 1
    /\ \E str \in Arrays, p \in AllocResults :
          /\ v.size + Len(str) <= MaxLen
          /\ Do("sb_append", <<>>, svcx_sb_append(S, str, p), p)

SbAppendCstr ==
    /\ run = "ok" /\ v.stride = 1
    /\ \E str \in Arrays, p \in AllocResults :
          /\ v.size + Len(str) <= MaxLen
          /\ Do("sb_append_cstr", <<>>, svcx_sb_append_cstr(S, str \o <<0>>, p), p)

SbAppendSv ==
    /\ run = "ok" /\ v.stride = 1
    /\ \E sv \in Arrays, p \in AllocResults :
          /\ v.size + Len(sv) <= MaxLen
          /\ Do("sb_append_sv", <<>>, svcx_sb_append_sv(S, sv, p), p)

SbAppendFmt ==
    /\ run = "ok" /\ v.stride = 1
    /\ \E text \in Texts, valid \in BOOLEAN, p \in AllocResults :
          /\ v.size + Len(text) <= MaxLen
          /\ ~valid => text = <<>>
          /\ Do("sb_append_fmt", <<>>,
                svcx_sb_append_fmt(S, IF valid THEN Len(text) ELSE -1, text, p), p)

SbCstr ==
    /\ run = "ok" /\ v.stride = 1
    /\ \E u \in {0, 1}, p \in AllocResults :
          Do("sb_cstr", <<>>, svcx_sb_cstr(S, u, p), p)

\* After build the string belongs to the caller and the builder is not used
\* again.
SbBuild ==
    /\ run = "ok" /\ v.stride = 1
    /\ \E p \in AllocResults :
          LET r == svcx_sb_build(S, p)
          IN  Do("sb_build", <<>>, [r EXCEPT !.st = IF @ = "ok" THEN "built" ELSE @], p)

\* The caller releases the string build returned, and initialises the
\* builder for another use.
SbReuse ==
    /\ run = "built"
    /\ Do("sb_init", <<>>,
          Ret(svcx_sb_init, SVCX_OK, 0, FALSE, FALSE,
              IF v.data # NULL THEN {v.data} ELSE {}, "ok"), NULL)

Next ==
    \/ VecInit
    \/ VecFromArray
    \/ VecClear
    \/ VecReserve
    \/ VecPush
    \/ VecPop
    \/ VecInsert
    \/ VecAppend
    \/ VecFree
    \/ SbPushChar
    \/ SbAppend
    \/ SbAppendCstr
    \/ SbAppendSv
    \/ SbAppendFmt
    \/ SbCstr
    \/ SbBuild
    \/ SbReuse

Spec == Init /\ [][Next]_vars

\* ------------------------------------------------------------- the two growth paths

\* The array of count elements 1, 0, 1, ...
Pattern(count) == [i \in 1..count |-> i % 2]

\* What a growth installs: its result, the capacity and the live elements.
Installed(r) ==
    [res |-> r.res, st |-> r.st, cap |-> r.v.cap,
     elems |-> [k \in 1..r.v.size |-> CellAt(r.buf.cells, k - 1)]]

\* The vectors svcx_vector_from_array builds from arrays of 0..MaxCount
\* elements: every capacity in that range, the vector full.
GrowthInit ==
    /\ \E count \in 0..MaxCount, stride \in Strides :
          LET r == svcx_vector_from_array(Pattern(count), stride, 1)
          IN  /\ v = r.v
              /\ buf = r.buf
              /\ live = IF r.used THEN {1} ELSE {}
    /\ last = [op |-> "none", arg |-> <<>>]
    /\ run = "ok"
    /\ arena = svcx_arena_init(0, FALSE)
    /\ alog = <<>>
    /\ aret = NoCall

\* Both growth paths applied to the same vector with the same min_cap; the
\* vector itself is left as it was, to compare the outcomes with.
GrowBothWays ==
    /\ last.op = "none"
    /\ \E min_cap \in 0..SIZE_MAX, p \in AllocResults :
          last' = [op |-> "growth", arg |-> <<min_cap>>,
                   grow |-> Installed(svcx_vector_grow(S, min_cap, p)),
                   reserve |-> Installed(svcx_vector_reserve(S, min_cap, p))]
    /\ UNCHANGED <<v, buf, live, run>>
    /\ UNCHANGED avars

GrowthNext == GrowBothWays

SpecGrowth == GrowthInit /\ [][GrowthNext]_vars


\* ------------------------------------------------------------- element order

\* A block that is not live, from a heap that never runs out of addresses:
\* the lowest free one.
NewPtr(lv) ==
    CHOOSE p \in 1..(Cardinality(lv) + 1) :
        /\ p \notin lv
        /\ \A q \in 1..(Cardinality(lv) + 1) : q \notin lv => p <= q

\* What svcx_alloc returns in the specifications below: a new block, or NULL.
NewAllocResults == {NewPtr(live), NULL}

\* Arrays and source vectors of up to MaxSrc elements.
SeqArrays == SeqsUpTo(Elems, MaxSrc)
SeqSources == [stride : Strides, cells : SeqArrays]

\* The indexes svcx_vector_at is called with.
AtIndexes == 0..MaxSeq \cup {SIZE_MAX}

\* The vector calls with their arguments kept in last.arg: one vector is
\* initialised or built from an array, then pushed to, popped from, inserted
\* into and appended to.
SeqFromArray ==
    /\ run = "ok" /\ v.data = NULL
    /\ \E array \in SeqArrays, stride \in Strides, p \in NewAllocResults :
          Do("from_array", <<array, stride>>,
             svcx_vector_from_array(array, stride, p), p)

SeqPush ==
    /\ run = "ok" /\ v.size < MaxSeq
    /\ \E elem \in Elems, p \in NewAllocResults :
          Do("push", <<elem>>, svcx_vector_push(S, elem, p), p)

SeqPop ==
    /\ run = "ok"
    /\ Do("pop", <<>>, svcx_vector_pop(S), NULL)

SeqInsert ==
    /\ run = "ok" /\ v.size < MaxSeq
    /\ \E index \in 0..(v.size + 1), elem \in Elems, p \in NewAllocResults :
          Do("insert", <<index, elem>>, svcx_vector_insert(S, index, elem, p), p)

SeqAppend ==
    /\ run = "ok"
    /\ \E src \in SeqSources, p \in NewAllocResults :
          /\ v.size + Len(src.cells) <= MaxSeq
          /\ Do("append", <<src>>, svcx_vector_append(S, src, p), p)

\* svcx_vector_at changes nothing; the pointer it returns is kept in last.out.
SeqAt ==
    /\ run = "ok"
    /\ \E index \in AtIndexes :
          Do("at", <<index>>,
             [Plain(S, SVCX_OK) EXCEPT !.out = svcx_vector_at(S, index)], NULL)

SeqClear ==
    /\ run = "ok"
    /\ Do("clear", <<>>, Plain(svcx_vector_clear(S), SVCX_OK), NULL)

\* The heap is kept finite: the vector is freed, and so rebuilt, only while
\* at most MaxBlocks blocks are live.
SeqFree ==
    /\ run = "ok" /\ Cardinality(live) <= MaxBlocks
    /\ Do("free", <<>>, svcx_vector_free(S), NULL)

SeqNext ==
    \/ SeqFromArray
    \/ SeqPush
    \/ SeqPop
    \/ SeqInsert
    \/ SeqAppend
    \/ SeqAt
    \/ SeqClear
    \/ SeqFree

SpecSeq == Init /\ [][SeqNext]_vars


\* ------------------------------------------------------------- string views

\* A svcx_string_view argument is the sequence of bytes it covers (len is
\* its Len); a returned view is [off, len]: data is the argument's data + off.

\* memcmp(a + i, b, n) == 0, for a window that lies inside a.
memcmp_eq(a, i, b, n) == \A k \in 1..n : a[i + k] = b[k]

\* The loop of svcx_sv_find from index i, up to index limit: the first i
\* whose window equals needle, (size_t)-1 when the loop runs out.
RECURSIVE FindLoop(_, _, _, _)
FindLoop(haystack, needle, i, limit) ==
    IF i > limit THEN SIZE_MAX
    ELSE IF memcmp_eq(haystack, i, needle, Len(needle)) THEN i
    ELSE FindLoop(haystack, needle, i + 1, limit)

\* svcx_sv_find with i < haystack.len - needle.len as the loop's condition.
svcx_sv_find_short(haystack, needle) ==
    IF Len(needle) = 0 THEN 0
    ELSE IF Len(needle) > Len(haystack) THEN SIZE_MAX
    ELSE FindLoop(haystack, needle, 0, Len(haystack) - Len(needle) - 1)

\* svcx_sv_find
svcx_sv_find(haystack, needle) ==
    IF Len(needle) = 0 THEN 0
    ELSE IF Len(needle) > Len(haystack) THEN SIZE_MAX
    ELSE FindLoop(haystack, needle, 0, Len(haystack) - Len(needle))

\* The loop of svcx_sv_contains from index i.
RECURSIVE ContainsLoop(_, _, _)
ContainsLoop(haystack, needle, i) ==
    IF i > Len(haystack) - Len(needle) THEN FALSE
    ELSE IF memcmp_eq(haystack, i, needle, Len(needle)) THEN TRUE
    ELSE ContainsLoop(haystack, needle, i + 1)

\* svcx_sv_contains
svcx_sv_contains(haystack, needle) ==
    IF Len(needle) = 0 THEN TRUE
    ELSE IF Len(needle) > Len(haystack) THEN FALSE
    ELSE ContainsLoop(haystack, needle, 0)

\* svcx_sv_starts_with
svcx_sv_starts_with(sv, prefix) ==
    IF Len(prefix) > Len(sv) THEN FALSE
    ELSE memcmp_eq(sv, 0, prefix, Len(prefix))

\* svcx_sv_ends_with comparing from sv.data instead of from
\* sv.data + (sv.len - suffix.len).
svcx_sv_ends_with_front(sv, suffix) ==
    IF Len(suffix) > Len(sv) THEN FALSE
    ELSE memcmp_eq(sv, 0, suffix, Len(suffix))

\* svcx_sv_ends_with
svcx_sv_ends_with(sv, suffix) ==
    IF Len(suffix) > Len(sv) THEN FALSE
    ELSE memcmp_eq(sv, Len(sv) - Len(suffix), suffix, Len(suffix))

\* isspace: of the two byte values, 0 stands for the whitespace bytes and 1
\* for all others.
isspace(c) == c = 0

\* The loop of svcx_sv_trim_start: start after the leading whitespace.
RECURSIVE TrimStartLoop(_, _, _)
TrimStartLoop(sv, start, end) ==
    IF start < end /\ isspace(sv[start + 1])
    THEN TrimStartLoop(sv, start + 1, end)
    ELSE start

\* The loop of svcx_sv_trim_end: end before the trailing whitespace.
RECURSIVE TrimEndLoop(_, _, _)
TrimEndLoop(sv, start, end) ==
    IF end > start /\ isspace(sv[end])
    THEN TrimEndLoop(sv, start, end - 1)
    ELSE end

\* svcx_sv_trim_start
svcx_sv_trim_start(sv) ==
    LET start == TrimStartLoop(sv, 0, Len(sv))
    IN  [off |-> start, len |-> Len(sv) - start]

\* svcx_sv_trim_end dropping one trailing whitespace byte at most.
svcx_sv_trim_end_once(sv) ==
    [off |-> 0,
     len |-> IF Len(sv) > 0 /\ isspace(sv[Len(sv)]) THEN Len(sv) - 1 ELSE Len(sv)]

\* svcx_sv_trim_end
svcx_sv_trim_end(sv) ==
    [off |-> 0, len |-> TrimEndLoop(sv, 0, Len(sv))]

\* The bytes the view w of sv covers.
ViewBytes(sv, w) == SubSeq(sv, w.off + 1, w.off + w.len)

\* The view inner of the view outer, as a view of what outer is a view of.
Within(outer, inner) == [off |-> outer.off + inner.off, len |-> inner.len]

\* svcx_sv_trim
svcx_sv_trim(sv) ==
    LET tmp == svcx_sv_trim_start(sv)
    IN  Within(tmp, svcx_sv_trim_end(ViewBytes(sv, tmp)))

\* svcx_sv_substring without SVCX_DEBUG (the asserts compile to nothing):
\* start is clamped to end, then end to sv.len, and the length is
\* end - start in size_t.
svcx_sv_substring(sv, start, end) ==
    LET start1 == IF start > end THEN end ELSE start
        end1 == IF end > Len(sv) THEN Len(sv) ELSE end
    IN  [off |-> start1, len |-> W(end1 - start1 + SizeMod)]

\* The views, and the start / end arguments, the functions are called with.
Views == SeqsUpTo(Elems, MaxView)
Offsets == 0..(MaxView + 2) \cup {SIZE_MAX}

NoViewCall == [op |-> "none", arg |-> <<>>, out |-> U]

\* No vector takes part: the string-view functions are pure.
ViewInit ==
    /\ v = svcx_vector_init(1).v
    /\ buf = svcx_vector_init(1).buf
    /\ live = {}
    /\ last = NoViewCall
    /\ run = "ok"
    /\ arena = svcx_arena_init(0, FALSE)
    /\ alog = <<>>
    /\ aret = NoCall

\* One call and what it returned; each behaviour makes one call.
ViewCall(op, arg, out) ==
    /\ last' = [op |-> op, arg |-> arg, out |-> out]
    /\ UNCHANGED <<v, buf, live, run>>
    /\ UNCHANGED avars

SvSubstring ==
    /\ last.op = "none"
    /\ \E sv \in Views, start \in Offsets, end \in Offsets :
          ViewCall("substring", <<sv, start, end>>, svcx_sv_substring(sv, start, end))

SvFind ==
    /\ last.op = "none"
    /\ \E haystack \in Views, needle \in Views :
          ViewCall("find", <<haystack, needle>>, svcx_sv_find(haystack, needle))

SvContains ==
    /\ last.op = "none"
    /\ \E haystack \in Views, needle \in Views :
          ViewCall("contains", <<haystack, needle>>, svcx_sv_contains(haystack, needle))

SvStartsWith ==
    /\ last.op = "none"
    /\ \E sv \in Views, prefix \in Views :
          ViewCall("starts_with", <<sv, prefix>>, svcx_sv_starts_with(sv, prefix))

SvEndsWith ==
    /\ last.op = "none"
    /\ \E sv \in Views, suffix \in Views :
          ViewCall("ends_with", <<sv, suffix>>, svcx_sv_ends_with(sv, suffix))

SvTrimStart ==
    /\ last.op = "none"
    /\ \E sv \in Views : ViewCall("trim_start", <<sv>>, svcx_sv_trim_start(sv))

SvTrimEnd ==
    /\ last.op = "none"
    /\ \E sv \in Views : ViewCall("trim_end", <<sv>>, svcx_sv_trim_end(sv))

SvTrim ==
    /\ last.op = "none"
    /\ \E sv \in Views : ViewCall("trim", <<sv>>, svcx_sv_trim(sv))

ViewNext ==
    \/ SvSubstring
    \/ SvFind
    \/ SvContains
    \/ SvStartsWith
    \/ SvEndsWith
    \/ SvTrimStart
    \/ SvTrimEnd
    \/ SvTrim

SpecView == ViewInit /\ [][ViewNext]_vars


\* ------------------------------------------------------------- svcx_sv_split

\* sizeof(svcx_string_view): a pointer and a size_t, two words of the
\* modelled machine.
ViewStride == 2

\* The sub-view svcx_sv_split makes at index i, taking the delimiter with it.
SplitPart_incl(start, i) == [off |-> start, len |-> i - start + 1]

\* The sub-view svcx_sv_split makes at index i (a delimiter, or sv.len).
SplitPart(start, i) == [off |-> start, len |-> i - start]

\* The loop of svcx_sv_split from index i.  acc is the out vector and its
\* block so far, the svcx_alloc requests made (nalloc), the blocks they
\* returned (got), the blocks handed out before (heap) and st; the failAt-th
\* request of the call returns NULL (none when failAt = 0).
RECURSIVE SplitLoop(_, _, _, _, _, _)
SplitLoop(sv, delimiter, i, start, acc, failAt) ==
    IF i > Len(sv) THEN [acc EXCEPT !.res = SVCX_OK]
    ELSE IF i = Len(sv) \/ sv[i + 1] = delimiter
    THEN LET p == IF acc.nalloc + 1 = failAt THEN NULL
                  ELSE NewPtr(acc.heap \cup acc.got)
             r == svcx_vector_push([v |-> acc.v, buf |-> acc.buf],
                                   SplitPart(start, i), p)
             acc1 == [acc EXCEPT !.v = r.v, !.buf = r.buf,
                                 !.nalloc = @ + r.nalloc,
                                 !.oom = @ \/ r.oom,
                                 !.got = @ \cup (IF r.used THEN {p} ELSE {}),
                                 !.st = r.st]
         IN  IF r.res # SVCX_OK THEN [acc1 EXCEPT !.res = SVCX_SV_SPLIT_ERR]
             ELSE IF r.st # "ok" THEN [acc1 EXCEPT !.res = SVCX_OK]
             ELSE SplitLoop(sv, delimiter, i + 1, i + 1, acc1, failAt)
    ELSE SplitLoop(sv, delimiter, i + 1, start, acc, failAt)

\* svcx_sv_split onto the out vector s, with lv the blocks handed out so far.
svcx_sv_split(sv, delimiter, s, lv, failAt) ==
    SplitLoop(sv, delimiter, 0, 0,
              [v |-> s.v, buf |-> s.buf, res |-> SVCX_OK, nalloc |-> 0,
               oom |-> FALSE, got |-> {}, heap |-> lv, st |-> "ok"],
              failAt)

\* What the out vector holds before the first split: nothing, or views of
\* some other string.
OldViews == {<<>>, <<[off |-> 0, len |-> 0]>>,
             <<[off |-> 1, len |-> 2], [off |-> 0, len |-> 1]>>}

SplitInit ==
    /\ \E old \in OldViews :
          LET r == svcx_vector_from_array(old, ViewStride, 1)
          IN  /\ v = r.v
              /\ buf = r.buf
              /\ live = IF r.used THEN {1} ELSE {}
    /\ last = NoOp
    /\ run = "ok"
    /\ arena = svcx_arena_init(0, FALSE)
    /\ alog = <<>>
    /\ aret = NoCall

SvSplit ==
    /\ run = "ok"
    /\ \E sv \in Views, delimiter \in Elems, failAt \in 0..(MaxView + 1) :
          /\ v.size + Len(sv) + 1 <= MaxOut
          /\ \E r \in {svcx_sv_split(sv, delimiter, S, live, failAt)} :
              /\ v' = r.v
              /\ buf' = r.buf
              /\ live' = live \cup r.got
              /\ last' = [op |-> "split", arg |-> <<sv, delimiter>>,
                          res |-> r.res, nalloc |-> r.nalloc, oom |-> r.oom,
                          out |-> U]
              /\ run' = r.st
    /\ UNCHANGED avars

SplitNext == SvSplit

SpecSplit == SplitInit /\ [][SplitNext]_vars


\* ------------------------------------------------------------- builder round trip

\* The strings handed to the appends.
Strs == SeqsUpTo(Elems, MaxStr)

\* A builder call returned r, svcx_alloc having returned p; sent is the
\* concatenation of the strings whose append has returned SVCX_OK so far,
\* len the length the call was to append.
SentDo(op, r, p, sent, len) ==
    /\ v' = r.v
    /\ buf' = r.buf
    /\ live' = (live \cup (IF r.used THEN {p} ELSE {})) \ r.freed
    /\ last' = [op |-> op, res |-> r.res, oom |-> r.oom, sent |-> sent,
                nalloc |-> r.nalloc, len |-> len]
    /\ run' = r.st
    /\ UNCHANGED avars

\* sent after a call that was to append str.
Sent(r, str) == IF r.res = SVCX_OK THEN last.sent \o str ELSE last.sent

\* A fresh builder: svcx_sb_init.
TextInit ==
    /\ v = svcx_sb_init.v
    /\ buf = svcx_sb_init.buf
    /\ live = {}
    /\ last = [op |-> "none", res |-> SVCX_OK, oom |-> FALSE, sent |-> <<>>,
               nalloc |-> 0, len |-> 0]
    /\ run = "ok"
    /\ arena = svcx_arena_init(0, FALSE)
    /\ alog = <<>>
    /\ aret = NoCall

TextPushChar ==
    /\ run = "ok" /\ v.size < MaxText
    /\ \E c \in Elems, p \in NewAllocResults :
          \E r \in {svcx_sb_push_char(S, c, p)} :
              SentDo("sb_push_char", r, p, Sent(r, <<c>>), 1)

TextAppend ==
    /\ run = "ok"
    /\ \E str \in Strs, p \in NewAllocResults :
          /\ v.size + Len(str) <= MaxText
          /\ \E r \in {svcx_sb_append(S, str, p)} :
                SentDo("sb_append", r, p, Sent(r, str), Len(str))

TextAppendSv ==
    /\ run = "ok"
    /\ \E sv \in Strs, p \in NewAllocResults :
          /\ v.size + Len(sv) <= MaxText
          /\ \E r \in {svcx_sb_append_sv(S, sv, p)} :
                SentDo("sb_append_sv", r, p, Sent(r, sv), Len(sv))

\* After build the string belongs to the caller: nothing follows.
TextBuild ==
    /\ run = "ok"
    /\ \E p \in NewAllocResults :
          \E r \in {svcx_sb_build(S, p)} :
              SentDo("sb_build", [r EXCEPT !.st = IF @ = "ok" THEN "built" ELSE @],
                     p, last.sent, 0)

TextNext ==
    \/ TextPushChar
    \/ TextAppend
    \/ TextAppendSv
    \/ TextBuild

SpecText == TextInit /\ [][TextNext]_vars

\* ------------------------------------------------------------- arena-backed vector and builder

\* The vector's allocator is svcx_arena_allocator(arena): svcx_alloc is
\* svcx_arena_alloc, which returns the next range of the arena or NULL (the
\* arena has room for MaxBump ranges at most; whether a request fits depends
\* on its size, so both outcomes are taken while there is room), svcx_free
\* is svcx_arena_free, which does nothing, and svcx_realloc is
\* svcx_arena_realloc, which aborts.  live is the ranges handed out.
BumpResults ==
    IF Cardinality(live) < MaxBump THEN {NewPtr(live), NULL} ELSE {NULL}

\* A call on the arena-backed vector returned r.
BumpDo(op, r, p) ==
    /\ v' = r.v
    /\ buf' = r.buf
    /\ live' = live \cup (IF r.used THEN {p} ELSE {})
    /\ last' = [op |-> op, res |-> r.res]
    /\ run' = IF r.nrealloc > 0 THEN "abort" ELSE r.st
    /\ UNCHANGED avars

BumpInit ==
    /\ \E stride \in Strides :
          /\ v = svcx_vector_init(stride).v
          /\ buf = svcx_vector_init(stride).buf
    /\ live = {}
    /\ last = [op |-> "none", res |-> SVCX_OK]
    /\ run = "ok"
    /\ arena = svcx_arena_init(MaxArena, TRUE)
    /\ alog = <<>>
    /\ aret = NoCall

BumpFromArray ==
    /\ run = "ok" /\ v.data = NULL
    /\ \E array \in Arrays, stride \in Strides, p \in BumpResults :
          BumpDo("from_array", svcx_vector_from_array(array, stride, p), p)

BumpClear ==
    /\ run = "ok"
    /\ BumpDo("clear", Plain(svcx_vector_clear(S), SVCX_OK), NULL)

BumpReserve ==
    /\ run = "ok"
    /\ \E min_cap \in ReserveArgs, p \in BumpResults :
          BumpDo("reserve", svcx_vector_reserve(S, min_cap, p), p)

BumpPush ==
    /\ run = "ok" /\ v.size < MaxLen
    /\ \E elem \in Elems, p \in BumpResults :
          BumpDo("push", svcx_vector_push(S, elem, p), p)

BumpPop ==
    /\ run = "ok"
    /\ BumpDo("pop", svcx_vector_pop(S), NULL)

BumpInsert ==
    /\ run = "ok" /\ v.size < MaxLen
    /\ \E index \in 0..(v.size + 1), elem \in Elems, p \in BumpResults :
          BumpDo("insert", svcx_vector_insert(S, index, elem, p), p)

BumpAppend ==
    /\ run = "ok"
    /\ \E src \in Sources, p \in BumpResults :
          /\ v.size + Len(src.cells) <= MaxLen
          /\ BumpDo("append", svcx_vector_append(S, src, p), p)

BumpFree ==
    /\ run = "ok"
    /\ BumpDo("free", svcx_vector_free(S), NULL)

BumpSbPushChar ==
    /\ run = "ok" /\ v.stride = 1 /\ v.size < MaxLen
    /\ \E c \in Elems, p \in BumpResults :
          BumpDo("sb_push_char", svcx_sb_push_char(S, c, p), p)

BumpSbAppend ==
    /\ run = "ok" /\ v.stride = 1
    /\ \E str \in Arrays, p \in BumpResults :
          /\ v.size + Len(str) <= MaxLen
          /\ BumpDo("sb_append", svcx_sb_append(S, str, p), p)

BumpSbAppendSv ==
    /\ run = "ok" /\ v.stride = 1
    /\ \E sv \in Arrays, p \in BumpResults :
          /\ v.size + Len(sv) <= MaxLen
          /\ BumpDo("sb_append_sv", svcx_sb_append_sv(S, sv, p), p)

BumpSbAppendFmt ==
    /\ run = "ok" /\ v.stride = 1
    /\ \E text \in Texts, p \in BumpResults :
          /\ v.size + Len(text) <= MaxLen
          /\ BumpDo("sb_append_fmt", svcx_sb_append_fmt(S, Len(text), text, p), p)

BumpSbCstr ==
    /\ run = "ok" /\ v.stride = 1
    /\ \E u \in {0, 1}, p \in BumpResults :
          BumpDo("sb_cstr", svcx_sb_cstr(S, u, p), p)

BumpSbBuild ==
    /\ run = "ok" /\ v.stride = 1 /\ v.size < MaxLen
    /\ \E p \in BumpResults :
          BumpDo("sb_build", svcx_sb_build(S, p), p)

BumpNext ==
    \/ BumpFromArray
    \/ BumpClear
    \/ BumpReserve
    \/ BumpPush
    \/ BumpPop
    \/ BumpInsert
    \/ BumpAppend
    \/ BumpFree
    \/ BumpSbPushChar
    \/ BumpSbAppend
    \/ BumpSbAppendSv
    \/ BumpSbAppendFmt
    \/ BumpSbCstr
    \/ BumpSbBuild

SpecBump == BumpInit /\ [][BumpNext]_vars


\* ------------------------------------------------------------- claims: arena

\* roundup8 over the integers: the next multiple of 8, never wrapped.
RoundUp8(size) == ((size + 7) \div 8) * 8

\* `used` before the last svcx_arena_alloc call: a successful call returned
\* base + used, a failed one left used alone.
UsedBefore == IF aret.ok THEN aret.off ELSE arena.used

\* C3: 0 <= used <= capacity in every state reachable by init, allocate (any
\* size), release, reset and teardown.
C3_UsedWithinCapacity == 0 <= arena.used /\ arena.used <= arena.size

\* C3 witness: allocations have filled a non-empty arena to its capacity.
C3_Witness ==
    /\ aret.op = "alloc" /\ aret.ok
    /\ arena.size > 0 /\ arena.used = arena.size /\ Len(alog) >= 2

\* C4: allocate(size) succeeds exactly when used + roundup8(size) <= capacity
\* (sizes rounded over the integers), and a failed call leaves the arena as
\* it was.  Refuted for sizes whose rounding or whose sum with used wraps.
C4_AllocSucceedsIffFits ==
    (aret.op = "alloc" /\ arena.base = "live") =>
        (aret.ok <=> UsedBefore + RoundUp8(aret.req) <= arena.size)

\* C5 (byte-range part): the ranges [off, off + len) of the successful
\* allocations since the last init/reset are pairwise disjoint and lie inside
\* [0, capacity).  Refuted when used + size wraps.
C5_AllocationsDisjoint ==
    arena.base = "live" =>
        /\ \A i \in 1..Len(alog) : alog[i].off + alog[i].len <= arena.size
        /\ \A i, j \in 1..Len(alog) :
              i < j => \/ alog[i].off + alog[i].len <= alog[j].off
                       \/ alog[j].off + alog[j].len <= alog[i].off

\* C21: after teardown base is null, capacity 0 and used 0; the buffer is
\* released once even when teardown is called again; and every allocate on
\* the torn-down arena fails.  Refuted: base keeps the released pointer, a
\* second teardown frees it again, and allocate(0) returns base.
C21_TeardownZeroes ==
    /\ aret.op = "free_all"
         => /\ arena.base = "null" /\ arena.size = 0 /\ arena.used = 0
            /\ run # "ub"
    /\ (aret.op = "alloc" /\ arena.base # "live") => ~aret.ok

\* C28: a successful allocate advances used by at least the requested size,
\* and a request larger than capacity - used fails.  Refuted: both the
\* rounding and the bump check wrap in size_t.
C28_AllocNeverWraps ==
    (aret.op = "alloc" /\ arena.base = "live")
      => /\ aret.ok => arena.used - UsedBefore >= aret.req
         /\ aret.req > arena.size - UsedBefore => ~aret.ok


\* ------------------------------------------------------------- claims: vector and builder

\* The live elements of the vector, in order (U: not in the vector's block).
LiveElems == [k \in 1..v.size |-> CellAt(buf.cells, k - 1)]

\* C1: for a heap-backed vector or builder at most one block allocated for
\* it is unreleased at any time.  Refuted: _svcx_vector_grow never releases
\* the block it supersedes.
C1_AtMostOneLiveBlock == Cardinality(live) <= 1

\* C2: size <= capacity in every reachable state, allocations allowed to
\* fail.  Refuted: svcx_sb_cstr decrements size after a push that failed.
C2_SizeWithinCapacity == v.size <= v.cap

\* The vector calls C6 names.
FallibleVecOps == {"reserve", "push", "insert", "append", "pop"}

\* C6: a reserve, push, insert, append or pop that fails leaves data, size,
\* capacity, stride and the block's bytes exactly as they were.
C6_FailedCallChangesNothing ==
    [][(last'.op \in FallibleVecOps /\ last'.res # SVCX_OK)
          => (v' = v /\ buf' = buf /\ live' = live)]_vars

\* C6 witness: an insert into a full, non-empty vector failed to grow.
C6_Witness ==
    /\ last.op = "insert" /\ last.res = SVCX_VEC_INSERT_GROW_ERR
    /\ v.size = v.cap /\ v.size > 0 /\ v.data # NULL

\* C7: an allocation failure inside a call is reported to the caller: a
\* svcx_result other than SVCX_OK, or for the calls that return a pointer a
\* NULL.  Refuted: svcx_sb_cstr and svcx_sb_build drop the push's result.
C7_AllocFailureReported ==
    last.oom => IF last.res = POINTER THEN v.data = NULL ELSE last.res # SVCX_OK

\* C8: a reserve(n) that returns SVCX_OK never shrinks capacity, leaves
\* capacity >= n, and leaves size and every live element unchanged; with
\* capacity >= n already it changes nothing and allocates nothing.  Refuted
\* when new_cap * stride wraps: the block installed is smaller than the live
\* elements copied into it.
C8_ReserveKeepsContents ==
    [][(last'.op = "reserve" /\ last'.res = SVCX_OK /\ run' # "hang")
          => /\ v'.cap >= v.cap
             /\ v'.cap >= last'.arg[1]
             /\ v'.size = v.size
             /\ LiveElems' = LiveElems
             /\ (v.cap >= last'.arg[1]
                   => v' = v /\ buf' = buf /\ live' = live /\ last'.nalloc = 0)]_vars


\* ------------------------------------------------------------- claims: element order

\* The vector and block after the step.
SNext == [v |-> v', buf |-> buf']

\* C11: a successful push puts its element after the live ones (across any
\* growth); a pop of a non-empty vector returns the last live element,
\* removes it and decrements size by one; a pop of an empty vector fails with
\* SVCX_VEC_POP_EMPTY_ERR.  Pushes followed by pops thus come back LIFO.
C11_PushPopLifo ==
    [][/\ (last'.op = "push" /\ last'.res = SVCX_OK)
            => /\ v'.size = v.size + 1
               /\ LiveElems' = Append(LiveElems, last'.arg[1])
       /\ last'.op = "pop"
            => IF v.size = 0
               THEN last'.res = SVCX_VEC_POP_EMPTY_ERR /\ v' = v /\ buf' = buf
               ELSE /\ last'.res = SVCX_OK
                    /\ last'.out = LiveElems[v.size]
                    /\ v'.size = v.size - 1
                    /\ LiveElems' = SubSeq(LiveElems, 1, v.size - 1)]_vars

\* C11 witness: after two growths a pop returned the element on top and left
\* others below it.
C11_Witness ==
    /\ last.op = "pop" /\ last.res = SVCX_OK /\ last.out = 1
    /\ v.size >= 2 /\ v.cap >= 4 /\ Cardinality(live) >= 3

\* C12: a successful insert(v, i, e), growing or not, has i <= size, makes
\* at(v, i) = e, keeps the elements below i, moves each element at j >= i to
\* j + 1 and increases size by one.
C12_InsertShifts ==
    [][(last'.op = "insert" /\ last'.res = SVCX_OK)
          => LET i == last'.arg[1]
                 e == last'.arg[2]
             IN  /\ i <= v.size
                 /\ v'.size = v.size + 1
                 /\ svcx_vector_at(SNext, i) = <<e>>
                 /\ \A j \in 0..(i - 1) :
                       svcx_vector_at(SNext, j) = svcx_vector_at(S, j)
                 /\ \A j \in i..(v.size - 1) :
                       svcx_vector_at(SNext, j + 1) = svcx_vector_at(S, j)]_vars

\* C12 witness: an insert in the middle of a full vector, which grew.
C12_Witness ==
    /\ last.op = "insert" /\ last.res = SVCX_OK /\ last.nalloc = 1
    /\ last.arg[1] > 0 /\ last.arg[1] < v.size - 1

\* C13: a successful append(dst, src) keeps dst's elements where they were,
\* puts src's elements in order after them, and makes dst.size the sum of
\* the two sizes.
C13_AppendConcatenates ==
    [][(last'.op = "append" /\ last'.res = SVCX_OK)
          => /\ v'.size = v.size + Len(last'.arg[1].cells)
             /\ LiveElems' = LiveElems \o last'.arg[1].cells]_vars

\* C13 witness: two elements appended to a non-empty vector that had to grow.
C13_Witness ==
    /\ last.op = "append" /\ last.res = SVCX_OK /\ last.nalloc = 1
    /\ Len(last.arg[1].cells) = 2 /\ last.arg[1].cells[1] # last.arg[1].cells[2]
    /\ v.size >= 3

\* C14: from_array makes one allocation when count > 0 and none when
\* count = 0; on success size = capacity = count and at(v, i) = array[i];
\* with count = 0 it succeeds with data NULL, size 0, capacity 0.
C14_FromArray ==
    last.op = "from_array"
      => LET array == last.arg[1]
             count == Len(array)
         IN  /\ last.nalloc = IF count > 0 THEN 1 ELSE 0
             /\ last.res = SVCX_OK
                  => /\ v.size = count /\ v.cap = count
                     /\ \A i \in 0..(count - 1) :
                           svcx_vector_at(S, i) = <<array[i + 1]>>
             /\ count = 0
                  => /\ last.res = SVCX_OK
                     /\ v.data = NULL /\ v.size = 0 /\ v.cap = 0

\* C14 witness: a vector built from an array of two different elements.
C14_Witness ==
    /\ last.op = "from_array" /\ last.res = SVCX_OK
    /\ Len(last.arg[1]) = 2 /\ last.arg[1][1] # last.arg[1][2]
    /\ v.stride = 4


\* ------------------------------------------------------------- claims: string views

\* C15: without debug assertions, for every view and every (start, end) the
\* view substring returns lies inside the original: offset <= length and
\* offset + result length <= length.  Refuted: start is clamped to end
\* before end is clamped to the length.
C15_SubstringInside ==
    last.op = "substring"
      => /\ last.out.off <= Len(last.arg[1])
         /\ last.out.off + last.out.len <= Len(last.arg[1])

\* needle occurs in haystack at index i.
OccursAt(haystack, needle, i) ==
    /\ i + Len(needle) <= Len(haystack)
    /\ SubSeq(haystack, i + 1, i + Len(needle)) = needle

\* C16: find returns 0 for an empty needle, otherwise the smallest index at
\* which needle occurs, and SIZE_MAX exactly when it occurs nowhere;
\* contains is true exactly when find does not return SIZE_MAX.
C16_FindFirstOccurrence ==
    /\ last.op = "find"
         => LET haystack == last.arg[1]
                needle == last.arg[2]
                occ == {i \in 0..Len(haystack) : OccursAt(haystack, needle, i)}
            IN  /\ needle = <<>> => last.out = 0
                /\ occ # {} => last.out \in occ /\ \A i \in occ : last.out <= i
                /\ occ = {} <=> last.out = SIZE_MAX
    /\ last.op = "contains"
         => (last.out <=> svcx_sv_find(last.arg[1], last.arg[2]) # SIZE_MAX)

\* C16 witness: a needle of two bytes found at the last possible index, after
\* a window that matched its first byte only.
C16_Witness ==
    /\ last.op = "find"
    /\ Len(last.arg[2]) = 2 /\ Len(last.arg[1]) = 3
    /\ last.out = 1


\* C25: starts_with(sv, p) is true exactly when len(p) <= len(sv) and the
\* first len(p) bytes of sv equal p; ends_with(sv, s) is true exactly when
\* len(s) <= len(sv) and the last len(s) bytes of sv equal s.  An empty affix
\* matches, a longer one does not, and the bytes compared lie inside sv.
C25_AffixMatch ==
    last.op \in {"starts_with", "ends_with"}
      => LET sv == last.arg[1]
             affix == last.arg[2]
             from == IF last.op = "starts_with" THEN 0 ELSE Len(sv) - Len(affix)
         IN  /\ last.out <=> /\ Len(affix) <= Len(sv)
                             /\ SubSeq(sv, from + 1, from + Len(affix)) = affix
             /\ Len(affix) = 0 => last.out
             /\ Len(affix) > Len(sv) => ~last.out
             /\ last.out => from >= 0 /\ from + Len(affix) <= Len(sv)

\* C25 witness: a two-byte suffix of a three-byte view that is not its prefix.
C25_Witness ==
    /\ last.op = "ends_with" /\ last.out
    /\ Len(last.arg[1]) = 3 /\ Len(last.arg[2]) = 2
    /\ ~svcx_sv_starts_with(last.arg[1], last.arg[2])

\* All bytes of sv are whitespace (so for the empty view).
AllSpace(sv) == \A k \in 1..Len(sv) : isspace(sv[k])

\* C26: trim_start, trim_end and trim return a sub-view of their input;
\* the first byte (trim_start, trim) and the last byte (trim_end, trim) of a
\* non-empty result are not whitespace; every byte left out is whitespace;
\* trim_start keeps the end and trim_end the start; an all-whitespace or
\* empty view gives an empty view; trim is idempotent, and is trim_end after
\* trim_start, which covers the same bytes as trim_start after trim_end (the
\* same sub-view whenever it is not empty).
C26_TrimSubView ==
    last.op \in {"trim_start", "trim_end", "trim"}
      => LET sv == last.arg[1]
             w == last.out
             es == svcx_sv_trim_start(sv)
             ee == svcx_sv_trim_end(sv)
             se == Within(es, svcx_sv_trim_end(ViewBytes(sv, es)))
             es2 == Within(ee, svcx_sv_trim_start(ViewBytes(sv, ee)))
         IN  /\ w.off >= 0 /\ w.len >= 0 /\ w.off + w.len <= Len(sv)
             /\ (last.op # "trim_end" /\ w.len > 0) => ~isspace(sv[w.off + 1])
             /\ (last.op # "trim_start" /\ w.len > 0)
                  => ~isspace(sv[w.off + w.len])
             /\ \A k \in 1..Len(sv) :
                   (k <= w.off \/ k > w.off + w.len) => isspace(sv[k])
             /\ last.op = "trim_start" => w.off + w.len = Len(sv)
             /\ last.op = "trim_end" => w.off = 0
             /\ AllSpace(sv) <=> w.len = 0
             /\ last.op = "trim"
                  => /\ svcx_sv_trim(ViewBytes(sv, w)) = [off |-> 0, len |-> w.len]
                     /\ w = se
                     /\ ViewBytes(sv, w) = ViewBytes(sv, es2)
                     /\ w.len > 0 => w = es2

\* C26 witness: trim of a view with whitespace on both sides of one byte.
C26_Witness ==
    /\ last.op = "trim" /\ Len(last.arg[1]) = 3
    /\ last.out = [off |-> 1, len |-> 1]


\* The bytes of sv a sub-view covers.
Bytes(sv, part) == SubSeq(sv, part.off + 1, part.off + part.len)

\* The sub-views' bytes joined with the delimiter.
RECURSIVE Join(_, _, _)
Join(sv, parts, delimiter) ==
    IF Len(parts) = 1 THEN Bytes(sv, parts[1])
    ELSE Bytes(sv, parts[1]) \o <<delimiter>> \o Join(sv, Tail(parts), delimiter)

\* C17: a successful split keeps the out vector's contents and appends
\* after them (number of delimiter bytes in the view) + 1 sub-views, left to
\* right, empty segments and the final segment included; no sub-view holds
\* the delimiter, and joined with the delimiter they give the view's bytes.
C17_SplitSegments ==
    [][(last'.op = "split" /\ last'.res = SVCX_OK)
          => LET sv == last'.arg[1]
                 delimiter == last'.arg[2]
                 parts == SubSeq(LiveElems', v.size + 1, v'.size)
             IN  /\ SubSeq(LiveElems', 1, v.size) = LiveElems
                 /\ Len(parts) =
                        Cardinality({i \in 1..Len(sv) : sv[i] = delimiter}) + 1
                 /\ \A k \in 1..Len(parts) :
                       /\ parts[k].off + parts[k].len <= Len(sv)
                       /\ \A i \in 1..parts[k].len :
                             Bytes(sv, parts[k])[i] # delimiter
                 /\ \A k \in 1..(Len(parts) - 1) :
                       parts[k].off + parts[k].len < parts[k + 1].off
                 /\ Join(sv, parts, delimiter) = sv]_vars

\* C17 witness: a view that starts with the delimiter and ends with it was
\* split onto a non-empty out vector, which grew: three sub-views, the first
\* and the last empty.
C17_Witness ==
    /\ last.op = "split" /\ last.res = SVCX_OK /\ last.nalloc >= 1
    /\ Len(last.arg[1]) = 3
    /\ last.arg[1][1] = last.arg[2] /\ last.arg[1][3] = last.arg[2]
    /\ last.arg[1][2] # last.arg[2]
    /\ v.size >= 4
    /\ LiveElems[v.size] = [off |-> 3, len |-> 0]
    /\ LiveElems[v.size - 2] = [off |-> 0, len |-> 0]


\* ------------------------------------------------------------- claims: builder round trip

\* C18: for a fresh builder and any sequence of append / append_sv /
\* push_char calls, view(sb) is the concatenation, in order, of what was
\* appended (length and bytes); build, its allocation succeeding, leaves
\* those bytes followed by exactly one NUL and a logical length one larger.
C18_BuilderRoundTrip ==
    /\ last.op # "sb_build" => svcx_sb_view(S) = last.sent
    /\ (last.op = "sb_build" /\ ~last.oom)
         => /\ v.size = Len(last.sent) + 1
            /\ svcx_sb_view(S) = last.sent \o <<0>>

\* C18 witness: a text longer than the first capacity (8), built.
C18_Witness ==
    /\ last.op = "sb_build" /\ ~last.oom /\ run = "built"
    /\ Len(last.sent) = MaxText /\ v.cap > 8
    /\ last.sent[1] # last.sent[2]


\* ------------------------------------------------------------- claims: builder buffer

\* C19: for every builder state and every allocator outcome, cstring_view
\* leaves the logical length and the live bytes unchanged, and the byte at
\* index length of the buffer it returns is NUL.  Refuted when the push of
\* the terminator fails to allocate: size is decremented all the same.
C19_CstrKeepsBuilder ==
    [][last'.op = "sb_cstr"
          => /\ v'.size = v.size
             /\ LiveElems' = LiveElems
             /\ CellAt(buf'.cells, v'.size) = 0]_vars

\* The builder calls that write into the buffer.
BuilderWriters ==
    {"sb_push_char", "sb_append", "sb_append_cstr", "sb_append_sv",
     "sb_append_fmt", "sb_cstr", "sb_build"}

\* C20: every byte a builder call writes lies at an index < capacity of the
\* block installed at the time of the write (the builder having
\* size <= capacity before the call).  Refuted: svcx_sb_append_fmt reserves
\* size + needed and lets vsnprintf write needed + 1 bytes.
C20_WritesBelowCapacity ==
    [][(last'.op \in BuilderWriters /\ v.size <= v.cap) => run' # "ub"]_vars

\* C27: one append(bytes, length) or append_sv(view) call makes at most one
\* allocation whatever the length, and none when the length is 0 or the
\* capacity already holds size + length; when the allocation fails the call
\* returns its own error with length, capacity, bytes and heap unchanged,
\* and otherwise it succeeds with the length increased by length.
C27_AppendAllocatesOnce ==
    [][last'.op \in {"sb_append", "sb_append_sv"}
          => LET len == last'.len
                 enough == len = 0 \/ v.size + len <= v.cap
             IN  /\ last'.nalloc <= 1
                 /\ Cardinality(live' \ live) <= 1
                 /\ enough => /\ last'.nalloc = 0 /\ live' = live
                              /\ last'.res = SVCX_OK
                              /\ v'.cap = v.cap /\ v'.data = v.data
                 /\ ~enough => last'.nalloc = 1
                 /\ last'.res = SVCX_OK => v'.size = v.size + len
                 /\ last'.res # SVCX_OK
                      => /\ last'.oom
                         /\ last'.res = IF last'.op = "sb_append"
                                        THEN SVCX_SB_APPEND_ERR
                                        ELSE SVCX_SB_APPEND_SV_ERR
                         /\ v' = v /\ buf' = buf /\ live' = live]_vars

\* C27 witness: an append of two bytes to a non-empty builder whose capacity
\* did not hold them failed in its one allocation.
C27_Witness ==
    /\ last.op = "sb_append" /\ last.res = SVCX_SB_APPEND_ERR /\ last.oom
    /\ last.len = 2 /\ last.nalloc = 1
    /\ v.size > 0 /\ v.size + 2 > v.cap /\ v.data # NULL

\* ------------------------------------------------------------- claims: free and at

\* C23: free releases the vector's current block exactly once (nothing when
\* data is NULL, as after an earlier free) and leaves data NULL, size 0 and
\* capacity 0 with the stride unchanged (the allocator is the heap
\* throughout); a push right after a free whose allocation succeeds makes a
\* vector of exactly the pushed element in a live block.
C23_FreeResets ==
    [][/\ last'.op = "free"
            => /\ v'.data = NULL /\ v'.size = 0 /\ v'.cap = 0
               /\ v'.stride = v.stride
               /\ v.data # NULL => v.data \in live
               /\ live' = live \ {v.data}
               /\ v.data = NULL => live' = live
       /\ (last.op = "free" /\ last'.op = "push" /\ ~last'.oom)
            => /\ last'.res = SVCX_OK
               /\ v'.size = 1 /\ v'.cap >= 1
               /\ v'.data \in live'
               /\ LiveElems' = <<last'.arg[1]>>]_vars

\* C23 witness: a vector that had grown, leaving earlier blocks behind, has
\* been freed.
C23_Witness ==
    /\ last.op = "free" /\ v.data = NULL /\ v.size = 0 /\ v.cap = 0
    /\ Cardinality(live) >= 1 /\ v.stride = 4

\* C24: at(v, index) returns a pointer exactly when index < size and NULL
\* otherwise, and changes nothing; the element a pop removed, and every
\* element after a clear or a free, is not reachable through at.
C24_AtWithinSize ==
    [][/\ last'.op = "at"
            => /\ (last'.out # <<>>) <=> (last'.arg[1] < v.size)
               /\ last'.arg[1] < v.size
                    => last'.out = <<LiveElems[last'.arg[1] + 1]>>
               /\ v' = v /\ buf' = buf /\ live' = live
       /\ (last'.op = "pop" /\ last'.res = SVCX_OK)
            => svcx_vector_at(SNext, v.size - 1) = <<>>
       /\ last'.op \in {"clear", "free"}
            => \A index \in AtIndexes : svcx_vector_at(SNext, index) = <<>>
       /\ v.size = 0
            => \A index \in AtIndexes : svcx_vector_at(S, index) = <<>>]_vars

\* C24 witness: at returned NULL for the index of an element that an earlier
\* pop or clear removed, in a vector that still holds others.
C24_Witness ==
    /\ last.op = "at" /\ last.out = <<>>
    /\ last.arg[1] >= v.size /\ last.arg[1] < v.cap /\ v.size >= 1
    /\ Len(buf.cells) > last.arg[1]

\* ------------------------------------------------------------- claims: allocator use

\* C22: no vector or builder call makes a svcx_realloc request, so an
\* arena-backed vector or builder never reaches the abort of
\* svcx_arena_realloc.
C22_NoReallocAbort == run # "abort"

\* C22 witness: the arena-backed vector has grown twice and the arena has
\* refused a request.
C22_Witness ==
    /\ Cardinality(live) = MaxBump /\ v.data # NULL /\ v.size > 0
    /\ last.res \in {SVCX_VEC_PUSH_GROW_ERR, SVCX_VEC_ERR_OOM}


\* ------------------------------------------------------------- claims: reserve and ownership

\* C29: reserve(v, min_cap) terminates for every vector and every min_cap of
\* the word range, and then has either installed a capacity >= min_cap or
\* reported SVCX_VEC_ERR_OOM.  Refuted: for min_cap above half the word
\* range new_cap doubles to 0 and the loop never exits.
C29_ReserveTerminates ==
    /\ run # "hang"
    /\ last.op = "reserve"
         => \/ last.res = SVCX_OK /\ v.cap >= last.arg[1]
            \/ last.res = SVCX_VEC_ERR_OOM

\* C30: while the behaviour is defined, data of a heap-backed vector or
\* builder, when not NULL, is a live block of at least capacity * stride
\* bytes.  Refuted when new_cap * stride wraps in reserve: the block
\* installed is smaller than capacity * stride.
C30_DataOwnsCapacity ==
    (run = "ok" /\ v.data # NULL)
      => /\ v.data \in live
         /\ buf.bytes >= v.cap * v.stride

\* ------------------------------------------------------------- claims: growth

\* The smallest c * 2^k (k >= 0) that is >= n, over the integers (c >= 1).
SmallestDoubling(c, n) ==
    LET k == CHOOSE i \in 0..WordBits :
                 /\ c * 2 ^ i >= n
                 /\ \A j \in 0..(i - 1) : c * 2 ^ j < n
    IN  c * 2 ^ k

\* The last comparison was of a growth past the capacity, and reserve
\* returned SVCX_OK from it.
ReserveGrew ==
    /\ last.op = "growth" /\ last.arg[1] > v.cap
    /\ last.reserve.res = SVCX_OK /\ last.reserve.st # "hang"

\* C9 as stated: the capacity reserve installs is the smallest
\* max(capacity, 8) * 2^k that is >= min_cap.  Refuted for capacities 1..7.
C9_SmallestFromMax8 ==
    ReserveGrew =>
        last.reserve.cap = SmallestDoubling(IF v.cap > 8 THEN v.cap ELSE 8, last.arg[1])

\* C9 amended: with c the capacity, or 8 when the capacity is 0, the
\* capacity reserve installs is the first value >= min_cap of c, 2c, 4c, ...
\* in size_t arithmetic; when the smallest c * 2^k >= min_cap fits in size_t
\* it is that value.
C9_SmallestFromCap ==
    ReserveGrew =>
        LET c == IF v.cap # 0 THEN v.cap ELSE 8
            n == last.arg[1]
            new_cap == last.reserve.cap
        IN  /\ \E k \in 0..WordBits :
                  /\ new_cap = W(c * 2 ^ k)
                  /\ new_cap >= n
                  /\ \A j \in 0..(k - 1) : W(c * 2 ^ j) < n
            /\ SmallestDoubling(c, n) <= SIZE_MAX => new_cap = SmallestDoubling(c, n)

\* C9 witness: reserve(5) on a vector of capacity 3 installed capacity 6.
C9_Witness ==
    ReserveGrew /\ v.cap = 3 /\ last.arg[1] = 5 /\ last.reserve.cap = 6

\* C10: for a min_cap above the capacity, _svcx_vector_grow and
\* svcx_vector_reserve install the same capacity and the same live elements.
\* Refuted: grow takes max(2 * cap, min_cap), reserve doubles up to min_cap.
C10_SameGrowth ==
    (ReserveGrew /\ last.reserve.st = "ok"
        /\ last.grow.res = SVCX_OK /\ last.grow.st = "ok")
      => /\ last.grow.cap = last.reserve.cap
         /\ last.grow.elems = last.reserve.elems

====
